---- MODULE Spec2Model ----
(***************************************************************************)
(* Model of the two serverless handlers of solar-calculator-proxy:         *)
(*   - the CRM tagger          (src/api/kajabi-tag.js)                     *)
(*   - the webhook relay, in its original and its FIXED version            *)
(*                             (src/unnamed/part_000)                      *)
(* Every invocation runs one handler on one request.  A handler runs       *)
(* without interruption up to its next `await`; the upstream's answer to   *)
(* the awaited call and the handler's continuation up to the following     *)
(* await form the next step.  Invocations interleave at the awaits and     *)
(* share the token cache (cachedToken, tokenExpiresAt), the clock and the  *)
(* upstream CRM's contact list.                                            *)
(***************************************************************************)
EXTENDS Integers, Sequences, FiniteSets, TLC

VARIABLES
    cachedToken,      \* kajabi-tag.js:4   module-level token, NoToken when null
    tokenExpiresAt,   \* kajabi-tag.js:5   module-level expiry, in ms
    now,              \* Date.now(), in ms
    contacts,         \* the upstream CRM's contact records, in search order
    pc,               \* per invocation: the await it is suspended at
    handlerOf,        \* per invocation: which handler it runs
    req,              \* per invocation: the request (method, body)
    token,            \* per invocation: handler local `token`
    searchResult,     \* per invocation: data.data of the search response
    contact,          \* per invocation: handler local `contact`
    calls,            \* per invocation: upstream calls issued, in order, with outcomes
    sent              \* per invocation: responses sent, in order

shared == <<cachedToken, tokenExpiresAt, now, contacts>>
locals == <<pc, handlerOf, req, token, searchResult, contact, calls, sent>>
vars == <<cachedToken, tokenExpiresAt, now, contacts,
          pc, handlerOf, req, token, searchResult, contact, calls, sent>>

----------------------------------------------------------------------------
(* Bounds of the model *)

Invs == {1, 2}                 \* invocations the platform runs, possibly concurrently
MaxTicks == 2                  \* the clock advances at most this many steps
ClockStep == 100 * 1000        \* ms per clock step
Lifetimes == {300, 500}        \* expires_in values (seconds) the token endpoint reports

----------------------------------------------------------------------------
(* JavaScript values *)

Undefined == [t |-> "undefined"]
Num(n) == [t |-> "number", n |-> n]
Str(s) == [t |-> "string", s |-> s]     \* s: a sequence of characters

NoToken == <<>>                         \* cachedToken = null
AccessToken(i) == <<"token", i>>        \* data.access_token of invocation i's exchange
NoContact == [none |-> TRUE]            \* match || null

\* a comparison that keeps letter case
ToLowerCaseMutant(s) == s

\* String.prototype.toLowerCase over the characters the inputs use
LowerChar(c) ==
    CASE c = "A" -> "a"
      [] c = "X" -> "x"
      [] OTHER -> c
ToLowerCase(s) == [k \in DOMAIN s |-> LowerChar(s[k])]

\* String.prototype.includes for a one-character needle
Includes(s, c) == \E k \in DOMAIN s : s[k] = c

\* !v of kajabi-tag.js:144 for the values an email can take
Falsy(v) ==
    \/ v = Undefined
    \/ v.t = "number" /\ v.n = 0
    \/ v.t = "string" /\ v.s = <<>>

----------------------------------------------------------------------------
(* Requests *)

Methods == {"POST", "OPTIONS", "GET"}

EmailUpper == <<"A", "@", "x">>         \* differs from a stored email by case only
EmailFuzzy == <<"a", "2", "@", "x">>    \* a fuzzy neighbour of a stored email
EmailStored == <<"a", "@", "x">>        \* the contact the CRM holds at the start

Emails == {Undefined, Num(42), Str(<<>>), Str(<<"a", "x">>),
           Str(EmailUpper), Str(EmailFuzzy)}

\* req.body.tag as the property key tagMap[tag] looks up (undefined -> "undefined"):
\* a key tagMap owns, one it inherits, and two it does not have
Tags == {"contractor", "bogus", "constructor", "undefined"}

Bodies == {Undefined} \cup [email : Emails, tag : Tags]

\* The relay forwards its body unread: one body stands for all of them
RelayBody == [email |-> Str(EmailUpper), tag |-> "diy"]

----------------------------------------------------------------------------
(* Responses *)

CorsHeaders == {"Access-Control-Allow-Origin", "Access-Control-Allow-Methods",
                "Access-Control-Allow-Headers"}

EmptyBody == [end |-> TRUE]                                   \* res.end()
TaggerNotAllowed == [ok |-> FALSE, error |-> "Method not allowed"]
ValidEmailRequired == [ok |-> FALSE, error |-> "Valid email required"]
InvalidTag == [ok |-> FALSE, error |-> "Invalid tag. Must be: contractor, diy, or waitlist"]
ServerError == [ok |-> FALSE, error |-> "Server error"]
OkTrue == [ok |-> TRUE]
RelayNotAllowed == [error |-> "Method not allowed"]
RelayFailed == [error |-> "Failed to connect to Make.com", details |-> "error.message"]

Response(status, body, headers) == [status |-> status, body |-> body, headers |-> headers]

\* res.status(s).json(b) / res.status(s).end(): the invocation's response goes out
Send(i, status, body, headers) ==
    /\ sent' = [sent EXCEPT ![i] = Append(@, Response(status, body, headers))]
    /\ pc' = [pc EXCEPT ![i] = "done"]

----------------------------------------------------------------------------
(* Upstream calls: each is logged when issued and completed with its outcome *)

Pending == "pending"
Failures == {"throws", "notok"}     \* fetch rejects / response.ok is false

\* the token request of a miss; saw: the cachedToken that line 9 read
TokenCall == [op |-> "token", outcome |-> Pending, saw |-> cachedToken]
SearchCall(email) == [op |-> "search", email |-> email, outcome |-> Pending]
CreateCall(email) == [op |-> "create", email |-> email, outcome |-> Pending]
TagCall(contactId, tagId) ==
    [op |-> "tag", contactId |-> contactId, tagId |-> tagId, outcome |-> Pending]
RelayCall(body) == [op |-> "relay", body |-> body, outcome |-> Pending]

Settle(log, outcome) == [log EXCEPT ![Len(log)].outcome = outcome]

\* a token exchange that succeeded, with the data.expires_in it returned
TokenSettled(log, expiresIn) ==
    [log EXCEPT ![Len(log)] = [op |-> "token", outcome |-> "ok", saw |-> @.saw,
                               expiresIn |-> expiresIn]]

----------------------------------------------------------------------------
(* kajabi-tag.js *)

\* process.env.KAJABI_TAG_ID_*: the deployment configures all three
TagMapOwn == [contractor |-> "KAJABI_TAG_ID_CONTRACTOR",
              diy |-> "KAJABI_TAG_ID_DIY",
              waitlist |-> "KAJABI_TAG_ID_WAITLIST"]

\* tagMap is an object literal: a key it does not own is looked up on Object.prototype
ObjectPrototypeKeys == {"constructor", "toString", "valueOf", "hasOwnProperty",
                        "isPrototypeOf", "propertyIsEnumerable", "toLocaleString",
                        "__proto__"}
InheritedValue == "Object.prototype member"
NoTagId == "undefined"

\* tagMap[tag]
TagMapLookup(tag) ==
    IF tag \in DOMAIN TagMapOwn THEN TagMapOwn[tag]
    ELSE IF tag \in ObjectPrototypeKeys THEN InheritedValue
    ELSE NoTagId

\* a gate that lets GET through as well
NotPostMutant(method) == method \notin {"POST", "GET"}

\* handler, line 126: req.method !== 'POST'
NotPost(method) == method # "POST"

\* a token served at the instant it expires
CacheHitMutant == cachedToken # NoToken /\ now <= tokenExpiresAt

\* getAccessToken, line 9: cachedToken && Date.now() < tokenExpiresAt
CacheHit == cachedToken # NoToken /\ now < tokenExpiresAt

\* the expiry without the five-minute margin
ExpiryForNoMargin(expiresIn) == now + expiresIn * 1000

\* the margin taken in milliseconds instead of seconds
ExpiryForMsMargin(expiresIn) == now + expiresIn * 1000 - 300

\* getAccessToken, line 30
ExpiryFor(expiresIn) == now + (expiresIn - 300) * 1000

\* the first contact of the fuzzy search result taken as the match
FindMutant(data, email) == IF data = <<>> THEN NoContact ELSE Head(data)

\* the emails compared as they are, letter case included
RECURSIVE FindCaseSensitive(_, _)
FindCaseSensitive(data, email) ==
    IF data = <<>> THEN NoContact
    ELSE IF Head(data).email = email THEN Head(data)
    ELSE FindCaseSensitive(Tail(data), email)

\* findContactByEmail, lines 55-59: data.data.find(...) || null
RECURSIVE Find(_, _)
Find(data, email) ==
    IF data = <<>> THEN NoContact
    ELSE IF ToLowerCase(Head(data).email) = ToLowerCase(email) THEN Head(data)
    ELSE Find(Tail(data), email)

\* The upstream search is fuzzy: it may return any of the stored contacts
RECURSIVE Pick(_, _)
Pick(list, keep) ==
    IF list = <<>> THEN <<>>
    ELSE IF Len(list) \in keep
         THEN Append(Pick(SubSeq(list, 1, Len(list) - 1), keep), list[Len(list)])
         ELSE Pick(SubSeq(list, 1, Len(list) - 1), keep)
SearchResults == {Pick(contacts, keep) : keep \in SUBSET (1 .. Len(contacts))}

\* handler, lines 124-161: everything up to the handler's first await
TaggerHandler(i) ==
    /\ pc[i] = "idle"
    /\ \E method \in Methods, body \in Bodies :
        /\ handlerOf' = [handlerOf EXCEPT ![i] = "tagger"]
        /\ req' = [req EXCEPT ![i] = [method |-> method, body |-> body]]
        /\ UNCHANGED <<shared, searchResult, contact>>
        /\ IF NotPost(method)
           THEN Send(i, 405, TaggerNotAllowed, {}) /\ UNCHANGED <<token, calls>>
           ELSE IF method = "OPTIONS"
           THEN Send(i, 200, EmptyBody, CorsHeaders) /\ UNCHANGED <<token, calls>>
           ELSE IF body = Undefined                 \* line 141 throws a TypeError
           THEN Send(i, 500, ServerError, CorsHeaders) /\ UNCHANGED <<token, calls>>
           ELSE IF Falsy(body.email)
           THEN Send(i, 400, ValidEmailRequired, CorsHeaders) /\ UNCHANGED <<token, calls>>
           ELSE IF body.email.t # "string"          \* email.includes is not a function
           THEN Send(i, 500, ServerError, CorsHeaders) /\ UNCHANGED <<token, calls>>
           ELSE IF ~Includes(body.email.s, "@")
           THEN Send(i, 400, ValidEmailRequired, CorsHeaders) /\ UNCHANGED <<token, calls>>
           ELSE IF TagMapLookup(body.tag) = NoTagId
           THEN Send(i, 400, InvalidTag, CorsHeaders) /\ UNCHANGED <<token, calls>>
           ELSE IF CacheHit
           THEN /\ token' = [token EXCEPT ![i] = cachedToken]
                /\ calls' = [calls EXCEPT ![i] = Append(@, SearchCall(body.email.s))]
                /\ pc' = [pc EXCEPT ![i] = "search"]
                /\ UNCHANGED sent
           ELSE /\ calls' = [calls EXCEPT ![i] = Append(@, TokenCall)]
                /\ pc' = [pc EXCEPT ![i] = "token"]
                /\ UNCHANGED <<token, sent>>

\* a failed exchange that also drops the cached token
TokenResponseClearing(i) ==
    /\ pc[i] = "token"
    /\ UNCHANGED <<now, contacts, handlerOf, req, searchResult, contact>>
    /\ \/ \E failure \in Failures :
            /\ calls' = [calls EXCEPT ![i] = Settle(@, failure)]
            /\ Send(i, 500, ServerError, CorsHeaders)
            /\ cachedToken' = NoToken /\ tokenExpiresAt' = 0
            /\ UNCHANGED token
       \/ \E expiresIn \in Lifetimes :
            /\ cachedToken' = AccessToken(i)
            /\ tokenExpiresAt' = ExpiryFor(expiresIn)
            /\ token' = [token EXCEPT ![i] = AccessToken(i)]
            /\ calls' = [calls EXCEPT ![i] =
                            Append(TokenSettled(@, expiresIn),
                                   SearchCall(req[i].body.email.s))]
            /\ pc' = [pc EXCEPT ![i] = "search"]
            /\ UNCHANGED sent

\* an exchange that keeps the token already cached but still moves the expiry
TokenResponseFirstWins(i) ==
    /\ pc[i] = "token"
    /\ UNCHANGED <<now, contacts, handlerOf, req, searchResult, contact>>
    /\ \/ \E failure \in Failures :
            /\ calls' = [calls EXCEPT ![i] = Settle(@, failure)]
            /\ Send(i, 500, ServerError, CorsHeaders)
            /\ UNCHANGED <<cachedToken, tokenExpiresAt, token>>
       \/ \E expiresIn \in Lifetimes :
            /\ cachedToken' = IF cachedToken = NoToken THEN AccessToken(i) ELSE cachedToken
            /\ tokenExpiresAt' = ExpiryFor(expiresIn)
            /\ token' = [token EXCEPT ![i] = AccessToken(i)]
            /\ calls' = [calls EXCEPT ![i] =
                            Append(TokenSettled(@, expiresIn),
                                   SearchCall(req[i].body.email.s))]
            /\ pc' = [pc EXCEPT ![i] = "search"]
            /\ UNCHANGED sent

\* getAccessToken, lines 13-31, then handler lines 161-164 up to the search's await
TokenResponse(i) ==
    /\ pc[i] = "token"
    /\ UNCHANGED <<now, contacts, handlerOf, req, searchResult, contact>>
    /\ \/ \E failure \in Failures :
            /\ calls' = [calls EXCEPT ![i] = Settle(@, failure)]
            /\ Send(i, 500, ServerError, CorsHeaders)
            /\ UNCHANGED <<cachedToken, tokenExpiresAt, token>>
       \/ \E expiresIn \in Lifetimes :
            /\ cachedToken' = AccessToken(i)
            /\ tokenExpiresAt' = ExpiryFor(expiresIn)
            /\ token' = [token EXCEPT ![i] = AccessToken(i)]
            /\ calls' = [calls EXCEPT ![i] =
                            Append(TokenSettled(@, expiresIn),
                                   SearchCall(req[i].body.email.s))]
            /\ pc' = [pc EXCEPT ![i] = "search"]
            /\ UNCHANGED sent

\* findContactByEmail, lines 41-59, then handler lines 164-173 up to the next await,
\* for a search answered with one of `results`
SearchStep(i, results) ==
    /\ pc[i] = "search"
    /\ UNCHANGED <<shared, handlerOf, req, token>>
    /\ \/ \E failure \in Failures :
            /\ calls' = [calls EXCEPT ![i] = Settle(@, failure)]
            /\ Send(i, 500, ServerError, CorsHeaders)
            /\ UNCHANGED <<searchResult, contact>>
       \/ \E data \in results :
            LET match == Find(data, req[i].body.email.s) IN
            /\ searchResult' = [searchResult EXCEPT ![i] = data]
            /\ contact' = [contact EXCEPT ![i] = match]
            /\ calls' = [calls EXCEPT ![i] =
                  Append(Settle(@, "ok"),
                         IF match = NoContact
                         THEN CreateCall(req[i].body.email.s)
                         ELSE TagCall(match.id, TagMapLookup(req[i].body.tag)))]
            /\ pc' = [pc EXCEPT ![i] = IF match = NoContact THEN "create" ELSE "tag"]
            /\ UNCHANGED sent

\* the search as the upstream serves it: fuzzy, any of the stored contacts
SearchResponse(i) == SearchStep(i, SearchResults)

\* the search of an upstream that returns every contact stored when it is served
SearchResponseComplete(i) == SearchStep(i, {contacts})

\* createContact, lines 63-93, then handler lines 169-173 up to the tag call's await
CreateResponse(i) ==
    /\ pc[i] = "create"
    /\ UNCHANGED <<cachedToken, tokenExpiresAt, now, handlerOf, req, token, searchResult>>
    /\ \/ \E failure \in Failures :
            /\ calls' = [calls EXCEPT ![i] = Settle(@, failure)]
            /\ Send(i, 500, ServerError, CorsHeaders)
            /\ UNCHANGED <<contacts, contact>>
       \/ LET created == [id |-> Len(contacts) + 1, email |-> req[i].body.email.s] IN
            /\ contacts' = Append(contacts, created)
            /\ contact' = [contact EXCEPT ![i] = created]
            /\ calls' = [calls EXCEPT ![i] =
                  Append(Settle(@, "ok"),
                         TagCall(created.id, TagMapLookup(req[i].body.tag)))]
            /\ pc' = [pc EXCEPT ![i] = "tag"]
            /\ UNCHANGED sent

\* the tag call's response.ok is not looked at
TagResponseMutant(i) ==
    /\ pc[i] = "tag"
    /\ UNCHANGED <<shared, handlerOf, req, token, searchResult, contact>>
    /\ \/ /\ calls' = [calls EXCEPT ![i] = Settle(@, "throws")]
          /\ Send(i, 500, ServerError, CorsHeaders)
       \/ \E outcome \in {"notok", "ok"} :
            /\ calls' = [calls EXCEPT ![i] = Settle(@, outcome)]
            /\ Send(i, 200, OkTrue, CorsHeaders)

\* addTagToContact, lines 100-121, then handler lines 175-179
TagResponse(i) ==
    /\ pc[i] = "tag"
    /\ UNCHANGED <<shared, handlerOf, req, token, searchResult, contact>>
    /\ \/ \E failure \in Failures :
            /\ calls' = [calls EXCEPT ![i] = Settle(@, failure)]
            /\ Send(i, 500, ServerError, CorsHeaders)
       \/ /\ calls' = [calls EXCEPT ![i] = Settle(@, "ok")]
          /\ Send(i, 200, OkTrue, CorsHeaders)

----------------------------------------------------------------------------
(* part_000: the webhook relay, original (lines 4-54) and FIXED (lines 58-108) *)

UpstreamStatuses == {200, 500}          \* the relay never reads response.status
Texts == {<<"O", "K">>, <<"{", "}">>, <<>>}

Digits == {"0", "1", "2", "3", "4", "5", "6", "7", "8", "9"}
ParseError == [ok |-> FALSE]
Parsed(value) == [ok |-> TRUE, value |-> value]

\* JSON.parse on the texts the upstream sends: literals, integers, strings
\* without escapes, the empty object and the empty array; anything else throws
JsonParse(text) ==
    IF text = <<"n", "u", "l", "l">> THEN Parsed([t |-> "null"])
    ELSE IF text = <<"t", "r", "u", "e">> THEN Parsed([t |-> "boolean", b |-> TRUE])
    ELSE IF text = <<"f", "a", "l", "s", "e">> THEN Parsed([t |-> "boolean", b |-> FALSE])
    ELSE IF text = <<"{", "}">> THEN Parsed([t |-> "object"])
    ELSE IF text = <<"[", "]">> THEN Parsed([t |-> "array"])
    ELSE IF /\ Len(text) >= 2
            /\ text[1] = "\"" /\ text[Len(text)] = "\""
            /\ \A k \in 2 .. Len(text) - 1 : text[k] \notin {"\"", "\\"}
         THEN Parsed(Str(SubSeq(text, 2, Len(text) - 1)))
    ELSE IF /\ text # <<>>
            /\ \A k \in DOMAIN text : text[k] \in Digits
            /\ (Len(text) = 1 \/ text[1] # "0")
         THEN Parsed([t |-> "number", digits |-> text])
    ELSE ParseError

\* the upstream's status passed through
RelayStatusForMutant(status) == status

\* lines 45 / 99: res.status(200), whatever response.status is
RelayStatusFor(status) == 200

\* a body that is not JSON relayed as it came, without the {message} wrapper
InterpretUnwrapped(text) ==
    IF JsonParse(text).ok THEN JsonParse(text).value ELSE Str(text)

\* lines 36-42 / 90-96: try JSON.parse(data), else {message: data}
Interpret(text) ==
    IF JsonParse(text).ok THEN JsonParse(text).value ELSE [message |-> text]

\* original handler, lines 4-31: up to the await of the upstream fetch
RelayHandler(i) ==
    /\ pc[i] = "idle"
    /\ \E method \in Methods, body \in {Undefined, RelayBody} :
        /\ handlerOf' = [handlerOf EXCEPT ![i] = "relay"]
        /\ req' = [req EXCEPT ![i] = [method |-> method, body |-> body]]
        /\ UNCHANGED <<shared, token, searchResult, contact>>
        /\ IF method # "POST"
           THEN Send(i, 405, RelayNotAllowed, {}) /\ UNCHANGED calls
           ELSE IF method = "OPTIONS"
           THEN Send(i, 200, EmptyBody, CorsHeaders) /\ UNCHANGED calls
           ELSE /\ calls' = [calls EXCEPT ![i] = Append(@, RelayCall(body))]
                /\ pc' = [pc EXCEPT ![i] = "relay"]
                /\ UNCHANGED sent

\* FIXED handler, lines 58-85: up to the await of the upstream fetch
RelayFixedHandler(i) ==
    /\ pc[i] = "idle"
    /\ \E method \in Methods, body \in {Undefined, RelayBody} :
        /\ handlerOf' = [handlerOf EXCEPT ![i] = "relayFixed"]
        /\ req' = [req EXCEPT ![i] = [method |-> method, body |-> body]]
        /\ UNCHANGED <<shared, token, searchResult, contact>>
        /\ IF method = "OPTIONS"
           THEN Send(i, 200, EmptyBody, CorsHeaders) /\ UNCHANGED calls
           ELSE IF method # "POST"
           THEN Send(i, 405, RelayNotAllowed, CorsHeaders) /\ UNCHANGED calls
           ELSE /\ calls' = [calls EXCEPT ![i] = Append(@, RelayCall(body))]
                /\ pc' = [pc EXCEPT ![i] = "relay"]
                /\ UNCHANGED sent

\* a catch block that logs the error and sends nothing
RelayResponseSilent(i) ==
    /\ pc[i] = "relay"
    /\ UNCHANGED <<shared, handlerOf, req, token, searchResult, contact>>
    /\ \/ /\ calls' = [calls EXCEPT ![i] = Settle(@, "throws")]
          /\ pc' = [pc EXCEPT ![i] = "done"]
          /\ UNCHANGED sent
       \/ \E status \in UpstreamStatuses, text \in Texts :
            /\ calls' = [calls EXCEPT ![i] =
                  <<[op |-> "relay", body |-> req[i].body, outcome |-> "response",
                     status |-> status, text |-> text]>>]
            /\ Send(i, RelayStatusFor(status), Interpret(text), CorsHeaders)

\* both handlers, lines 25-53 / 79-107: the fetch settles, the body is read,
\* interpreted and relayed; a rejection of either await lands in the catch
RelayResponse(i) ==
    /\ pc[i] = "relay"
    /\ UNCHANGED <<shared, handlerOf, req, token, searchResult, contact>>
    /\ \/ /\ calls' = [calls EXCEPT ![i] = Settle(@, "throws")]
          /\ Send(i, 500, RelayFailed, CorsHeaders)
       \/ \E status \in UpstreamStatuses :
            /\ calls' = [calls EXCEPT ![i] =
                  <<[op |-> "relay", body |-> req[i].body, outcome |-> "bodythrows",
                     status |-> status]>>]
            /\ Send(i, 500, RelayFailed, CorsHeaders)
       \/ \E status \in UpstreamStatuses, text \in Texts :
            /\ calls' = [calls EXCEPT ![i] =
                  <<[op |-> "relay", body |-> req[i].body, outcome |-> "response",
                     status |-> status, text |-> text]>>]
            /\ Send(i, RelayStatusFor(status), Interpret(text), CorsHeaders)

----------------------------------------------------------------------------
(* The clock and the platform *)

StartTime == ClockStep

Tick ==
    /\ now < StartTime + MaxTicks * ClockStep
    /\ now' = now + ClockStep
    /\ UNCHANGED <<cachedToken, tokenExpiresAt, contacts, locals>>

Init ==
    /\ cachedToken = NoToken
    /\ tokenExpiresAt = 0
    /\ now = StartTime
    /\ contacts = <<[id |-> 1, email |-> EmailStored]>>
    /\ pc = [i \in Invs |-> "idle"]
    /\ handlerOf = [i \in Invs |-> "none"]
    /\ req = [i \in Invs |-> [method |-> "none", body |-> Undefined]]
    /\ token = [i \in Invs |-> NoToken]
    /\ searchResult = [i \in Invs |-> <<>>]
    /\ contact = [i \in Invs |-> NoContact]
    /\ calls = [i \in Invs |-> <<>>]
    /\ sent = [i \in Invs |-> <<>>]

Next ==
    \/ Tick
    \/ \E i \in Invs : TaggerHandler(i)
    \/ \E i \in Invs : TokenResponse(i)
    \/ \E i \in Invs : SearchResponse(i)
    \/ \E i \in Invs : CreateResponse(i)
    \/ \E i \in Invs : TagResponse(i)
    \/ \E i \in Invs : RelayHandler(i)
    \/ \E i \in Invs : RelayFixedHandler(i)
    \/ \E i \in Invs : RelayResponse(i)

Spec == Init /\ [][Next]_vars

\* Every upstream call an invocation awaits eventually returns or throws
Fairness ==
    \A i \in Invs :
        /\ WF_vars(TokenResponse(i))
        /\ WF_vars(SearchResponse(i))
        /\ WF_vars(CreateResponse(i))
        /\ WF_vars(TagResponse(i))
        /\ WF_vars(RelayResponse(i))

\* Both handlers with the clock standing still: a cached token of lifetime 500 s
\* is served, one of 300 s or less is not, so every path of a handler remains
NextFair ==
    \/ \E i \in Invs : TaggerHandler(i)
    \/ \E i \in Invs : TokenResponse(i)
    \/ \E i \in Invs : SearchResponse(i)
    \/ \E i \in Invs : CreateResponse(i)
    \/ \E i \in Invs : TagResponse(i)
    \/ \E i \in Invs : RelayHandler(i)
    \/ \E i \in Invs : RelayFixedHandler(i)
    \/ \E i \in Invs : RelayResponse(i)

SpecFair == Init /\ [][NextFair]_vars /\ Fairness

\* The CRM tagger alone, against an upstream whose search is complete
NextComplete ==
    \/ Tick
    \/ \E i \in Invs : TaggerHandler(i)
    \/ \E i \in Invs : TokenResponse(i)
    \/ \E i \in Invs : SearchResponseComplete(i)
    \/ \E i \in Invs : CreateResponse(i)
    \/ \E i \in Invs : TagResponse(i)

SpecComplete == Init /\ [][NextComplete]_vars

----------------------------------------------------------------------------
(* Vocabulary of the properties *)

Started(i) == handlerOf[i] # "none"
Tagger(i) == handlerOf[i] = "tagger"
Relay(i) == handlerOf[i] \in {"relay", "relayFixed"}
Answered(i) == sent[i] # <<>>
Ops(i) == [k \in 1 .. Len(calls[i]) |-> calls[i][k].op]
Issued(i, op) == \E k \in 1 .. Len(calls[i]) : calls[i][k].op = op
CountOf(i, op) == Cardinality({k \in 1 .. Len(calls[i]) : calls[i][k].op = op})
IsPrefix(s, t) == Len(s) <= Len(t) /\ \A k \in 1 .. Len(s) : s[k] = t[k]

AllowList == {"contractor", "diy", "waitlist"}

\* the request carries an email that is a string containing '@'
HasValidEmail(i) ==
    /\ req[i].body # Undefined
    /\ req[i].body.email.t = "string"
    /\ Includes(req[i].body.email.s, "@")

\* the request got past the handler's two validation steps
PassesValidation(i) ==
    /\ Tagger(i) /\ req[i].method = "POST"
    /\ HasValidEmail(i)
    /\ TagMapLookup(req[i].body.tag) # NoTagId

\* equality of two emails ignoring letter case, stated without toLowerCase
CasePairs == {{"a", "A"}, {"x", "X"}}
EqualIgnoringCase(a, b) ==
    /\ Len(a) = Len(b)
    /\ \A k \in 1 .. Len(a) : a[k] = b[k] \/ {a[k], b[k]} \in CasePairs

SearchSucceeded(i) ==
    \E k \in 1 .. Len(calls[i]) : calls[i][k].op = "search" /\ calls[i][k].outcome = "ok"
ExactMatches(i) ==
    {k \in 1 .. Len(searchResult[i]) :
        EqualIgnoringCase(searchResult[i][k].email, req[i].body.email.s)}

Pipelines == {<<"token", "search", "create", "tag">>, <<"token", "search", "tag">>,
              <<"search", "create", "tag">>, <<"search", "tag">>}

----------------------------------------------------------------------------
(* C1 - CRM tagger pipeline.  For every POST request that passes input     *)
(* validation the upstream calls are issued in the order token exchange    *)
(* (absent when the token came from the cache), contact search, contact    *)
(* create (only when the search yields no exact match), tag attach; only   *)
(* the last issued call can be pending or failed; a failed call is         *)
(* answered 500 {ok:false, error:'Server error'}; and 200 {ok:true} is     *)
(* sent only when every issued call succeeded and exactly one tag-attach   *)
(* call was made.                                                          *)
C1_Pipeline ==
    \A i \in Invs : PassesValidation(i) =>
        /\ Ops(i) # <<>>
        /\ LET ops == Ops(i) IN \E p \in Pipelines : IsPrefix(ops, p)
        /\ ~Issued(i, "token") =>
              \E j \in Invs \ {i} :
                  /\ token[i] = AccessToken(j)
                  /\ Issued(j, "token") /\ calls[j][1].outcome = "ok"
        /\ Issued(i, "create") => SearchSucceeded(i) /\ ExactMatches(i) = {}
        /\ \A k \in 1 .. Len(calls[i]) :
              /\ calls[i][k].outcome = Pending => k = Len(calls[i]) /\ ~Answered(i)
              /\ calls[i][k].outcome \in Failures =>
                    /\ k = Len(calls[i])
                    /\ sent[i] = <<Response(500, ServerError, CorsHeaders)>>
        /\ Answered(i) =>
              /\ Len(sent[i]) = 1
              /\ pc[i] = "done"
              /\ sent[i][1].status \in {200, 500}
              /\ sent[i][1].status = 500 =>
                    /\ sent[i][1].body = ServerError
                    /\ calls[i][Len(calls[i])].outcome \in Failures
              /\ sent[i][1].status = 200 =>
                    /\ sent[i][1].body = OkTrue
                    /\ \A k \in 1 .. Len(calls[i]) : calls[i][k].outcome = "ok"
                    /\ CountOf(i, "tag") = 1
                    /\ calls[i][Len(calls[i])].op = "tag"

\* a full four-step run answered 200, next to a run stopped by a failed create
C1_Witness ==
    \E i, j \in Invs :
        /\ PassesValidation(i) /\ Ops(i) = <<"token", "search", "create", "tag">>
        /\ sent[i] = <<Response(200, OkTrue, CorsHeaders)>>
        /\ PassesValidation(j) /\ calls[j][Len(calls[j])].op = "create"
        /\ sent[j] = <<Response(500, ServerError, CorsHeaders)>>

----------------------------------------------------------------------------
(* C2 - Token cache hit/miss.  A getAccessToken() call made while the      *)
(* cache holds the token of a successful exchange and the current time is  *)
(* before the stored expiry issues no token request and returns the        *)
(* cached token; a call made when the cache is empty or the time is at or  *)
(* after the stored expiry issues exactly one token request; no later step *)
(* of the invocation issues another.                                       *)
C2_TokenCache ==
    [][\A i \in Invs :
        /\ (pc[i] = "idle" /\ pc'[i] \in {"token", "search"}) =>
              IF cachedToken # NoToken /\ now < tokenExpiresAt
              THEN /\ \E j \in Invs \ {i} :
                          /\ cachedToken = AccessToken(j)
                          /\ calls[j][1].op = "token" /\ calls[j][1].outcome = "ok"
                   /\ CountOf(i, "token")' = 0
                   /\ token'[i] = cachedToken
                   /\ pc'[i] = "search"
              ELSE /\ CountOf(i, "token")' = 1
                   /\ pc'[i] = "token"
        /\ pc[i] # "idle" => CountOf(i, "token")' = CountOf(i, "token")
      ]_vars

\* one invocation was served the token another one's exchange stored
C2_Witness ==
    \E i, j \in Invs :
        /\ i # j
        /\ PassesValidation(i) /\ Ops(i)[1] = "search" /\ token[i] = AccessToken(j)
        /\ calls[j][1].op = "token" /\ calls[j][1].outcome = "ok"

----------------------------------------------------------------------------
(* C3 - Contact resolution, existing contact.  When the search result      *)
(* contains a contact whose email equals the requested email ignoring      *)
(* letter case, the tagger selects such a contact (the first one of the    *)
(* result), issues no create-contact call, and its tag-attach call goes to *)
(* that contact's id.                                                      *)
C3_ExistingContact ==
    \A i \in Invs :
        (PassesValidation(i) /\ SearchSucceeded(i) /\ ExactMatches(i) # {}) =>
            LET first == CHOOSE k \in ExactMatches(i) : \A m \in ExactMatches(i) : k <= m IN
            /\ contact[i] = searchResult[i][first]
            /\ ~Issued(i, "create")
            /\ CountOf(i, "tag") = 1
            /\ calls[i][Len(calls[i])].op = "tag"
            /\ calls[i][Len(calls[i])].contactId = searchResult[i][first].id
            /\ sent[i] = <<Response(200, OkTrue, CorsHeaders)>> =>
                  calls[i][Len(calls[i])].outcome = "ok"

\* a request for A@x was tagged onto the stored contact a@x
C3_Witness ==
    \E i \in Invs :
        /\ PassesValidation(i) /\ req[i].body.email.s = EmailUpper
        /\ contact[i] = [id |-> 1, email |-> EmailStored]
        /\ ~Issued(i, "create")
        /\ calls[i][Len(calls[i])].op = "tag" /\ calls[i][Len(calls[i])].contactId = 1
        /\ sent[i] = <<Response(200, OkTrue, CorsHeaders)>>

----------------------------------------------------------------------------
(* C4 - Contact resolution, fuzzy non-match.  When the search succeeds and *)
(* returns no contact whose email equals the requested email ignoring      *)
(* letter case (other contacts, or none), the outcome is not an error:     *)
(* exactly one create-contact call is issued, for the requested email, and *)
(* a tag-attach call is issued only after the create succeeded, to the id  *)
(* of the created contact, which is none of the ids the search returned.   *)
C4_FuzzyNonMatch ==
    \A i \in Invs :
        (PassesValidation(i) /\ SearchSucceeded(i) /\ ExactMatches(i) = {}) =>
            LET n == Len(calls[i])
                c == CHOOSE k \in 1 .. n : calls[i][k].op = "create" IN
            /\ CountOf(i, "create") = 1
            /\ calls[i][c].email = req[i].body.email.s
            /\ calls[i][c - 1].op = "search"
            /\ calls[i][c].outcome # "ok" => c = n /\ contact[i] = NoContact
            /\ calls[i][c].outcome = "ok" =>
                  /\ n = c + 1
                  /\ calls[i][n].op = "tag"
                  /\ calls[i][n].contactId = contact[i].id
                  /\ contact[i].email = req[i].body.email.s
                  /\ contact[i].id \in 1 .. Len(contacts)
                  /\ contacts[contact[i].id] = contact[i]
                  /\ \A k \in 1 .. Len(searchResult[i]) :
                        searchResult[i][k].id # contact[i].id

\* a request for a2@x, for which the search returned a@x, created and tagged a2@x
C4_Witness ==
    \E i \in Invs :
        /\ PassesValidation(i) /\ req[i].body.email.s = EmailFuzzy
        /\ searchResult[i] = <<[id |-> 1, email |-> EmailStored]>>
        /\ Issued(i, "create") /\ contact[i] # NoContact
        /\ contact[i].email = EmailFuzzy /\ contact[i].id # 1
        /\ calls[i][Len(calls[i])].op = "tag"
        /\ calls[i][Len(calls[i])].contactId = contact[i].id
        /\ sent[i] = <<Response(200, OkTrue, CorsHeaders)>>

----------------------------------------------------------------------------
(* C5 - Tag allow-list.  For every POST request with a valid email whose   *)
(* tag is any value other than contractor, diy, waitlist, the CRM tagger   *)
(* responds 400 with the invalid-tag message and makes no upstream call.   *)
C5_TagAllowList ==
    \A i \in Invs :
        (/\ Tagger(i) /\ req[i].method = "POST"
         /\ HasValidEmail(i)
         /\ req[i].body.tag \notin AllowList) =>
            /\ sent[i] = <<Response(400, InvalidTag, CorsHeaders)>>
            /\ calls[i] = <<>>

----------------------------------------------------------------------------
(* C6 - Email validation.  For every POST request to the CRM tagger whose  *)
(* email is missing or does not contain '@', whatever the tag, the         *)
(* response is 400 {ok:false, error:'Valid email required'}, no upstream   *)
(* call is made, and the token cache is left unchanged.                    *)
C6_EmailValidation ==
    [][\A i \in Invs :
        (/\ Tagger(i)' /\ req'[i].method = "POST"
         /\ ~HasValidEmail(i)') =>
            /\ sent'[i] = <<Response(400, ValidEmailRequired, CorsHeaders)>>
            /\ calls'[i] = <<>>
            /\ pc[i] = "idle" =>
                  /\ cachedToken' = cachedToken
                  /\ tokenExpiresAt' = tokenExpiresAt
      ]_vars

----------------------------------------------------------------------------
(* C7 - CRM tagger pre-flight.  Every request with method OPTIONS gets     *)
(* status 200 with an empty body and the three CORS headers set, with no   *)
(* upstream call, whatever the body and whatever the token cache holds.    *)
C7_TaggerPreflight ==
    \A i \in Invs :
        (Tagger(i) /\ req[i].method = "OPTIONS") =>
            /\ sent[i] = <<Response(200, EmptyBody, CorsHeaders)>>
            /\ calls[i] = <<>>

----------------------------------------------------------------------------
(* C8 - Method gate.  For every request whose method is neither POST nor   *)
(* OPTIONS, the CRM tagger and the webhook relay (either version) respond  *)
(* 405, make no upstream call and leave the token cache as it is.          *)
C8_MethodGate ==
    [][\A i \in Invs :
        (Started(i)' /\ req'[i].method \notin {"POST", "OPTIONS"}) =>
            /\ Len(sent'[i]) = 1
            /\ sent'[i][1].status = 405
            /\ sent'[i][1].body =
                  IF Tagger(i)' THEN TaggerNotAllowed ELSE RelayNotAllowed
            /\ calls'[i] = <<>>
            /\ pc'[i] = "done"
            /\ pc[i] = "idle" =>
                  /\ cachedToken' = cachedToken
                  /\ tokenExpiresAt' = tokenExpiresAt
      ]_vars

\* a GET was answered 405 by the tagger and by a relay, with no upstream call
C8_Witness ==
    \E i, j \in Invs :
        /\ Tagger(i) /\ req[i].method = "GET" /\ sent[i][1].status = 405
        /\ Relay(j) /\ req[j].method = "GET" /\ sent[j][1].status = 405
        /\ calls[i] = <<>> /\ calls[j] = <<>>

----------------------------------------------------------------------------
(* C9 - Webhook relay pre-flight.  Every request with method OPTIONS to    *)
(* the relay handler gets status 200 with an empty body and the three CORS *)
(* headers set, and nothing is forwarded to the upstream webhook URL.      *)
C9_RelayPreflight ==
    \A i \in Invs :
        (Relay(i) /\ req[i].method = "OPTIONS") =>
            /\ sent[i] = <<Response(200, EmptyBody, CorsHeaders)>>
            /\ calls[i] = <<>>

----------------------------------------------------------------------------
(* C10 - Webhook relay status mapping.  For every POST request the relay   *)
(* issues exactly one upstream POST; when that call delivers a response,   *)
(* whatever its status code, the relay responds 200 with the upstream body *)
(* as interpreted; it responds 500 with the {error, details} envelope if   *)
(* and only if the upstream call throws (the fetch or the reading of its   *)
(* body rejects).                                                          *)
C10_RelayStatus ==
    \A i \in Invs :
        (Relay(i) /\ req[i].method = "POST") =>
            /\ Len(calls[i]) = 1
            /\ calls[i][1].op = "relay"
            /\ calls[i][1].body = req[i].body
            /\ Answered(i) <=> calls[i][1].outcome # Pending
            /\ Answered(i) =>
                  /\ Len(sent[i]) = 1
                  /\ sent[i][1].status \in {200, 500}
                  /\ calls[i][1].outcome = "response" =>
                        /\ sent[i][1].status = 200
                        /\ sent[i][1].body =
                              IF JsonParse(calls[i][1].text).ok
                              THEN JsonParse(calls[i][1].text).value
                              ELSE [message |-> calls[i][1].text]
                  /\ sent[i][1].status = 500 <=>
                        calls[i][1].outcome \in {"throws", "bodythrows"}
                  /\ sent[i][1].status = 500 => sent[i][1].body = RelayFailed

\* an upstream 500 response relayed with status 200, next to a thrown call mapped to 500
C10_Witness ==
    \E i, j \in Invs :
        /\ Relay(i) /\ req[i].method = "POST" /\ Answered(i)
        /\ calls[i][1].outcome = "response" /\ calls[i][1].status = 500
        /\ sent[i][1].status = 200
        /\ Relay(j) /\ req[j].method = "POST" /\ Answered(j)
        /\ calls[j][1].outcome = "throws" /\ sent[j][1].status = 500

----------------------------------------------------------------------------
(* C11 - Webhook relay body interpretation.  For every upstream response   *)
(* body the relayed body is the parsed JSON value when the text parses as  *)
(* JSON and otherwise the object {message: <raw text>}, with status 200;   *)
(* in particular the text OK is relayed as {message: 'OK'}, the empty text *)
(* as {message: ''} and the text {} as the empty object.                   *)
C11_RelayBody ==
    \A i \in Invs :
        (Relay(i) /\ calls[i] # <<>> /\ calls[i][1].outcome = "response") =>
            LET text == calls[i][1].text IN
            /\ Len(sent[i]) = 1
            /\ sent[i][1].status = 200
            /\ JsonParse(text).ok => sent[i][1].body = JsonParse(text).value
            /\ ~JsonParse(text).ok => sent[i][1].body = [message |-> text]
            /\ text = <<"O", "K">> => sent[i][1].body = [message |-> <<"O", "K">>]
            /\ text = <<>> => sent[i][1].body = [message |-> <<>>]
            /\ text = <<"{", "}">> => sent[i][1].body = [t |-> "object"]

\* the text OK relayed as {message: 'OK'} next to the text {} relayed as an object
C11_Witness ==
    \E i, j \in Invs :
        /\ Relay(i) /\ calls[i] # <<>> /\ calls[i][1].outcome = "response"
        /\ calls[i][1].text = <<"O", "K">>
        /\ sent[i] = <<Response(200, [message |-> <<"O", "K">>], CorsHeaders)>>
        /\ Relay(j) /\ calls[j] # <<>> /\ calls[j][1].outcome = "response"
        /\ calls[j][1].text = <<"{", "}">>
        /\ sent[j] = <<Response(200, [t |-> "object"], CorsHeaders)>>

----------------------------------------------------------------------------
(* C12 - Token exchange failure.  When the token request issued on a cache *)
(* miss is answered non-ok (or rejects), the step that handles it leaves   *)
(* cachedToken and tokenExpiresAt exactly as they were, the invocation     *)
(* holds no token, issues no search, create or tag-attach call, and        *)
(* responds 500 {ok:false, error:'Server error'}.                          *)
C12_TokenFailure ==
    [][\A i \in Invs :
        (/\ Tagger(i)' /\ calls'[i] # <<>>
         /\ calls'[i][1].op = "token" /\ calls'[i][1].outcome \in Failures) =>
            /\ Len(calls'[i]) = 1
            /\ token'[i] = NoToken
            /\ sent'[i] = <<Response(500, ServerError, CorsHeaders)>>
            /\ pc'[i] = "done"
            /\ pc[i] = "token" =>
                  /\ cachedToken' = cachedToken
                  /\ tokenExpiresAt' = tokenExpiresAt
      ]_vars

\* an exchange answered non-ok while the cache holds another invocation's token
C12_Witness ==
    \E i, j \in Invs :
        /\ i # j
        /\ calls[i] # <<>> /\ calls[i][1].op = "token" /\ calls[i][1].outcome = "notok"
        /\ sent[i] = <<Response(500, ServerError, CorsHeaders)>>
        /\ cachedToken = AccessToken(j)

----------------------------------------------------------------------------
(* Vocabulary of the token cache properties *)

\* invocation i's step handles the successful answer to its token request
Stores(i) == pc[i] = "token" /\ calls'[i][1].outcome = "ok"

\* invocation i's step is a validated request entering getAccessToken
Enters(i) == pc[i] = "idle" /\ pc'[i] \in {"token", "search"}

Exchanged(i) == calls[i] # <<>> /\ calls[i][1].op = "token" /\ calls[i][1].outcome = "ok"

----------------------------------------------------------------------------
(* C13 - Token expiry margin.  After every successful token exchange the   *)
(* stored expiry equals the time of storing plus (upstream-reported        *)
(* lifetime in seconds minus 300) seconds, in milliseconds; a cached token *)
(* is served only at times strictly earlier than that instant, and at or   *)
(* after it a call issues a fresh exchange instead.                        *)
C13_ExpiryMargin ==
    [][\A i \in Invs :
        /\ Stores(i) =>
              tokenExpiresAt' = now + (calls'[i][1].expiresIn - 300) * 1000
        /\ (Enters(i) /\ cachedToken # NoToken) =>
              /\ pc'[i] = "search" <=> now < tokenExpiresAt
              /\ pc'[i] = "search" => token'[i] = cachedToken /\ ~Issued(i, "token")'
              /\ now >= tokenExpiresAt => pc'[i] = "token" /\ Issued(i, "token")'
      ]_vars

\* a token of lifetime 500 s stored by one invocation, served to the other within
\* the 200 s that follow
C13_Witness ==
    \E i, j \in Invs :
        /\ i # j
        /\ Exchanged(j) /\ calls[j][1].expiresIn = 500 /\ cachedToken = AccessToken(j)
        /\ token[i] = AccessToken(j) /\ ~Issued(i, "token")
        /\ now > StartTime /\ now < tokenExpiresAt

----------------------------------------------------------------------------
(* C14 - Concurrent cache misses.  Invocations that each observe a miss    *)
(* before any of them stores a result each issue their own token request,  *)
(* each returns the token of its own response, and the cache slot always   *)
(* holds a token and an expiry written together by one exchange, the last  *)
(* one to complete: only the step that handles a successful exchange       *)
(* writes the slot, and it writes both parts from its own response.        *)
C14_ConcurrentMisses ==
    [][/\ \A i \in Invs :
            /\ (Enters(i) /\ pc'[i] = "token") => CountOf(i, "token")' = 1
            /\ Stores(i) =>
                  /\ cachedToken' = AccessToken(i)
                  /\ tokenExpiresAt' = now + (calls'[i][1].expiresIn - 300) * 1000
            /\ Exchanged(i)' => token'[i] = AccessToken(i)
       /\ (\A i \in Invs : ~Stores(i)) =>
            /\ cachedToken' = cachedToken
            /\ tokenExpiresAt' = tokenExpiresAt
      ]_vars

\* two invocations missed on the empty cache, both exchanges succeeded with
\* different lifetimes, each kept its own token and the slot holds the later one
C14_Witness ==
    \E i, j \in Invs :
        /\ i # j
        /\ Exchanged(i) /\ calls[i][1].saw = NoToken
        /\ Exchanged(j) /\ calls[j][1].saw = NoToken
        /\ calls[i][1].expiresIn = 500 /\ calls[j][1].expiresIn = 300
        /\ token[i] = AccessToken(i) /\ token[j] = AccessToken(j)
        /\ cachedToken = AccessToken(j)
        /\ tokenExpiresAt <= now

----------------------------------------------------------------------------
(* C17 - A short-lived token is never served from the cache.  When the     *)
(* upstream-reported lifetime is 300 seconds or less the stored expiry is  *)
(* not later than the time of storing, so every later getAccessToken()     *)
(* call that finds this token in the slot is a miss and issues one         *)
(* upstream token request.                                                 *)
C17_ShortLived ==
    [][\A i \in Invs :
        /\ (Stores(i) /\ calls'[i][1].expiresIn <= 300) => tokenExpiresAt' <= now
        /\ \A j \in Invs \ {i} :
              (/\ Enters(i)
               /\ cachedToken = AccessToken(j)
               /\ calls[j][1].expiresIn <= 300) =>
                    /\ pc'[i] = "token"
                    /\ CountOf(i, "token")' = 1
                    /\ calls'[i][1].saw = AccessToken(j)
                    /\ token'[i] = NoToken
      ]_vars

\* a token of lifetime 300 s is in the slot and the call that found it there
\* with the clock not advanced since has issued a token request of its own
C17_Witness ==
    \E i, j \in Invs :
        /\ i # j
        /\ Exchanged(j) /\ calls[j][1].expiresIn = 300
        /\ cachedToken = AccessToken(j) /\ tokenExpiresAt = now
        /\ Issued(i, "token") /\ calls[i][1].saw = AccessToken(j)

----------------------------------------------------------------------------
(* C15 - No duplicate contact under concurrency, as claimed: for any       *)
(* interleaving of concurrent CRM tagger invocations carrying the same     *)
(* email (up to letter case), at most one create-contact call is issued    *)
(* for that email, the upstream search returning every contact created     *)
(* before it is served.  A create the upstream answered with a failure     *)
(* created nothing and is not counted.                                     *)
CreatesFor(email) ==
    {<<i, k>> \in Invs \X (1 .. 4) :
        /\ k <= Len(calls[i])
        /\ calls[i][k].op = "create"
        /\ calls[i][k].outcome \notin Failures
        /\ EqualIgnoringCase(calls[i][k].email, email)}

C15_NoDuplicateCreate ==
    \A email \in {EmailUpper, EmailFuzzy} : Cardinality(CreatesFor(email)) <= 1

ExistsFor(email) ==
    \E k \in 1 .. Len(contacts) : EqualIgnoringCase(contacts[k].email, email)

(* C15, amended - An invocation issues a create-contact call exactly when  *)
(* no contact with its email (up to letter case) is stored at the moment   *)
(* its search is served, and at most one; a successful create stores       *)
(* exactly one contact.  Invocations whose searches are all served before  *)
(* any of their creates completes each issue a create.                     *)
C15_CreateIffAbsent ==
    [][\A i \in Invs :
        /\ (pc[i] = "search" /\ pc'[i] \in {"create", "tag"}) =>
              (pc'[i] = "create" <=> ~ExistsFor(req[i].body.email.s))
        /\ CountOf(i, "create")' <= 1
        /\ Issued(i, "create")' => (Issued(i, "create") \/ pc[i] = "search")
        /\ (pc[i] = "create" /\ pc'[i] = "tag") =>
              /\ Len(contacts') = Len(contacts) + 1
              /\ contacts'[Len(contacts')].email = req[i].body.email.s
      ]_vars

\* one invocation created a2@x; the other, served its search afterwards, found
\* that contact and issued no create
C15_Witness ==
    \E i, j \in Invs :
        /\ i # j
        /\ PassesValidation(i) /\ req[i].body.email.s = EmailFuzzy
        /\ PassesValidation(j) /\ req[j].body.email.s = EmailFuzzy
        /\ Issued(i, "create") /\ contact[i] # NoContact
        /\ SearchSucceeded(j) /\ ~Issued(j, "create")
        /\ contact[j] = contact[i]

----------------------------------------------------------------------------
(* C16 - Exactly one response.  Every invocation of either handler, for    *)
(* any method, body and upstream outcome, sends exactly one HTTP response: *)
(* never two, none while an upstream call is awaited, one once the handler *)
(* has returned, and a response sent is never changed; and it sends that   *)
(* response eventually, provided each upstream call it issues eventually   *)
(* returns or throws.                                                      *)
C16_ExactlyOneResponse ==
    /\ [](\A i \in Invs :
            /\ Len(sent[i]) <= 1
            /\ Answered(i) <=> pc[i] = "done"
            /\ Answered(i) => calls[i] = <<>> \/ calls[i][Len(calls[i])].outcome # Pending
            /\ (Started(i) /\ ~Answered(i)) => calls[i][Len(calls[i])].outcome = Pending)
    /\ [][\A i \in Invs : Answered(i) => sent'[i] = sent[i]]_vars
    /\ \A i \in Invs : Started(i) ~> Answered(i)

\* both invocations answered once: a tagger after its four upstream calls and a
\* relay after its upstream call threw
C16_Witness ==
    \E i, j \in Invs :
        /\ Tagger(i) /\ Len(calls[i]) = 4 /\ Len(sent[i]) = 1 /\ pc[i] = "done"
        /\ Relay(j) /\ calls[j] # <<>> /\ calls[j][1].outcome = "throws"
        /\ Len(sent[j]) = 1 /\ pc[j] = "done"

====
